---------------------------- MODULE Spec2Model ----------------------------
(***************************************************************************)
(* The OpenAPI-schema-to-model generators of Ensemble-Service:             *)
(*   v1  src/scripts/generate_schemas.py          (PydanticModelGenerator) *)
(*   v2  src/service/scripts/generate_schemas.py  (generate_schemas)       *)
(*   v3  src/service/scripts/generate_models.py   (SQLAlchemy models)      *)
(* Text is modelled as a sequence of tokens: a name is a sequence of       *)
(* one-character strings, a literal fragment of a template is one          *)
(* multi-character string.  A raised exception is the field err of a       *)
(* result record ("" when nothing was raised).                             *)
(***************************************************************************)
EXTENDS Integers, Sequences, FiniteSets, TLC

VARIABLES
    variant,    \* which generator program the behaviour is about
    fs,         \* the output directory: path -> content of the file
    pc,         \* "idle" between runs, "run" inside the loop over the schemas
    seen,       \* raw schema names already visited by the running loop
    last,       \* what the last call of the per-schema handler did
    clock,      \* the wall clock, in seconds
    steps,      \* number of handler calls so far
    san,        \* the sanitizer applied to one raw name
    tm,         \* the type mappers applied to one property
    twice,      \* two runs of one generator on the same input, side by side
    run         \* the current (or last) run: its description, how it ended

vars == <<variant, fs, pc, seen, last, clock, steps, san, tm, twice, run>>

(***************************************************************************)
(* Characters and names                                                    *)
(***************************************************************************)
UpperAlpha ==
    <<"A","B","C","D","E","F","G","H","I","J","K","L","M",
      "N","O","P","Q","R","S","T","U","V","W","X","Y","Z">>

LowerAlpha ==
    <<"a","b","c","d","e","f","g","h","i","j","k","l","m",
      "n","o","p","q","r","s","t","u","v","w","x","y","z">>

Digits ==
    {"0","1","2","3","4","5","6","7","8","9"}

Range(s) ==
    {s[i] : i \in DOMAIN s}

\* the character class [a-zA-Z0-9_]
WordChars ==
    Range(UpperAlpha) \cup Range(LowerAlpha) \cup Digits \cup {"_"}

IsUpper(c) ==
    c \in Range(UpperAlpha)

\* str.lower() on one character
LowerChar(c) ==
    IF \E i \in DOMAIN UpperAlpha : UpperAlpha[i] = c
    THEN LowerAlpha[CHOOSE i \in DOMAIN UpperAlpha : UpperAlpha[i] = c]
    ELSE c

\* str.upper() on one character
UpperChar(c) ==
    IF \E i \in DOMAIN LowerAlpha : LowerAlpha[i] = c
    THEN UpperAlpha[CHOOSE i \in DOMAIN LowerAlpha : LowerAlpha[i] = c]
    ELSE c

Lower(s) ==
    [i \in DOMAIN s |-> LowerChar(s[i])]

Upper(s) ==
    [i \in DOMAIN s |-> UpperChar(s[i])]

\* re.sub(r'[^a-zA-Z0-9_]', '', s)
StripInvalid(s) ==
    SelectSeq(s, LAMBDA c : c \in WordChars)

\* re.sub(r'[^a-zA-Z0-9_]', '_', s)
ReplaceInvalid(s) ==
    [i \in DOMAIN s |-> IF s[i] \in WordChars THEN s[i] ELSE "_"]

\* re.match(r'^[A-Za-z_][A-Za-z0-9_]*$', s)
ValidClassName(s) ==
    /\ Len(s) > 0
    /\ s[1] \notin Digits
    /\ \A i \in DOMAIN s : s[i] \in WordChars

(***************************************************************************)
(* v2: sanitize_schema_name.  schema_name[0] on an empty string raises     *)
(* IndexError.                                                             *)
(***************************************************************************)
\* mutant: the digit is looked for in the name as given, not as stripped
sanitize_schema_name_raw(schema_name) ==
    LET stripped == StripInvalid(schema_name)
    IN  IF Len(stripped) = 0
        THEN [err |-> "IndexError", val |-> <<>>]
        ELSE IF schema_name[1] \in Digits
             THEN [err |-> "", val |-> <<"_">> \o stripped]
             ELSE [err |-> "", val |-> stripped]

sanitize_schema_name(schema_name) ==
    LET stripped == StripInvalid(schema_name)
    IN  IF Len(stripped) = 0
        THEN [err |-> "IndexError", val |-> <<>>]
        ELSE IF stripped[1] \in Digits
             THEN [err |-> "", val |-> <<"_">> \o stripped]
             ELSE [err |-> "", val |-> stripped]

\* v2: sanitize_enum_values on one value (str(value) is the value's text)
sanitize_enum_value(value) ==
    ReplaceInvalid(value.text)

(***************************************************************************)
(* The input description.  A property (PropDef) is a mapping of the YAML   *)
(* document; a key that is absent is a flag set to FALSE, "" or "absent".  *)
(*   type        the value of 'type': "" when the key is absent, "[list]"  *)
(*               when the value is a YAML list (OpenAPI 3.1 type arrays)   *)
(*   itemsShape  "absent", "dict" (items is a mapping, held in items[1])   *)
(*               or "list" (items is a YAML list, not a mapping) or        *)
(*               "cycle" (items is a YAML alias of an enclosing mapping:   *)
(*               following it leads back to itself; items[1] shows the     *)
(*               type of the aliased mapping)                              *)
(*   enum        the values; each is [isStr, text] with text = str(value)  *)
(*   nullable    "absent", "true" or "false"                               *)
(*   cons        the validation keys present (maxLength, minimum, ...)     *)
(***************************************************************************)
Prop(name, type) ==
    [name |-> name, type |-> type, format |-> "",
     itemsShape |-> "absent", items |-> <<>>,
     hasProps |-> FALSE, props |-> <<>>,
     hasEnum |-> FALSE, enum |-> <<>>,
     hasTitle |-> FALSE, title |-> <<>>,
     nullable |-> "absent", hasDefault |-> FALSE,
     unique |-> FALSE, primary_key |-> FALSE, index |-> FALSE,
     cons |-> {}]

\* the empty mapping {} that .get('items', {}) falls back to
EmptyDict ==
    Prop(<<>>, "")

WithFormat(p, f) ==
    [p EXCEPT !.format = f]

WithItems(p, item) ==
    [p EXCEPT !.itemsShape = "dict", !.items = <<item>>]

WithListItems(p) ==
    [p EXCEPT !.itemsShape = "list"]

\* `p: &a {type: array, items: *a}` (type "array"), or an object whose only
\* property is again an array of that object (type "object")
WithCycle(p, type) ==
    [p EXCEPT !.itemsShape = "cycle", !.items = <<Prop(<<>>, type)>>]

\* frames the interpreter allows a recursion before it raises RecursionError
RecursionLimit == 3

\* a function that calls itself on the same mapping again and again, with
\* nothing that tells it has been there: the interpreter ends it
RECURSIVE Descend(_)
Descend(depth) ==
    IF depth >= RecursionLimit
    THEN [err |-> "RecursionError", type |-> <<>>, ops |-> <<>>]
    ELSE Descend(depth + 1)

WithProps(p, ps) ==
    [p EXCEPT !.hasProps = TRUE, !.props = ps]

WithEnum(p, vs) ==
    [p EXCEPT !.hasEnum = TRUE, !.enum = vs]

WithTitle(p, t) ==
    [p EXCEPT !.hasTitle = TRUE, !.title = t]

StrVal(text) ==
    [isStr |-> TRUE, text |-> text]

\* a YAML scalar that is not a string (yes/no, 1, ...)
NonStrVal(text) ==
    [isStr |-> FALSE, text |-> text]

Schema(name, props, required) ==
    [name |-> name, hasProps |-> TRUE, props |-> props, required |-> required]

(***************************************************************************)
(* Files.  A path is the stem of the file name, its extension, and for a   *)
(* backup the timestamp that qualifies the suffix (0 otherwise).  A file   *)
(* content is the class it declares and the lines of its body.             *)
(***************************************************************************)
PyPath(stem) ==
    [stem |-> stem, ext |-> "py", ts |-> 0]

\* Path.with_suffix(f".{timestamp}.bak")
BackupPath(path, timestamp) ==
    [stem |-> path.stem, ext |-> "bak", ts |-> timestamp]

Line(kind, name, type, rhs) ==
    [kind |-> kind, name |-> name, type |-> type, rhs |-> rhs]

Content(cls, base, lines) ==
    [cls |-> cls, base |-> base, lines |-> lines]

\* one attempted write: mode is the policy of the call site
WriteOp(path, content, mode) ==
    [path |-> path, content |-> content, mode |-> mode]

Exists(dir, path) ==
    path \in DOMAIN dir

WriteFile(dir, path, content) ==
    [q \in DOMAIN dir \cup {path} |-> IF q = path THEN content ELSE dir[q]]

(***************************************************************************)
(* v1: PydanticModelGenerator (src/scripts/generate_schemas.py).           *)
(* Every writer of v1 checks exists() first: mode "skip".                  *)
(***************************************************************************)
\* the enum class name: f"{prop_spec.get('title', 'Enum')}"
enum_name_of(prop_spec) ==
    IF prop_spec.hasTitle THEN prop_spec.title ELSE <<"E","n","u","m">>

\* one member line of generate_enum: f"    {value.upper()} = '{value}'"
enum_member(value) ==
    Line("member", Upper(value.text), <<>>, value.text)

\* generate_enum: value.upper() raises AttributeError on a value that is not
\* a str, before the file is looked at
generate_enum(enum_name, enum_values) ==
    IF \E i \in DOMAIN enum_values : ~enum_values[i].isStr
    THEN [err |-> "AttributeError", ops |-> <<>>]
    ELSE [err |-> "",
          ops |-> <<WriteOp(PyPath(Lower(enum_name)),
                            Content(enum_name, "str, Enum",
                                    [i \in DOMAIN enum_values |->
                                        enum_member(enum_values[i])]),
                            "skip")>>]

\* lines 66-68: the enum is generated, then its name is the type
v1_enum_type(enum_name, g) ==
    [err |-> g.err, type |-> enum_name, ops |-> g.ops]

\* line 84: f'List[{items_type}]' around the type of the items
v1_list_type(r) ==
    [err |-> r.err, type |-> <<"List[">> \o r.type \o <<"]">>, ops |-> r.ops]

\* a type returned without side effect
PlainType(t) ==
    [err |-> "", type |-> t, ops |-> <<>>]

\* an exception raised by the type mapping
RaisedType(e) ==
    [err |-> e, type |-> <<>>, ops |-> <<>>]

RECURSIVE get_python_type(_)
get_python_type(prop_spec) ==
    IF prop_spec.type = "string" THEN
        IF prop_spec.hasEnum THEN
            v1_enum_type(enum_name_of(prop_spec),
                         generate_enum(enum_name_of(prop_spec), prop_spec.enum))
        ELSE IF prop_spec.format = "date" THEN PlainType(<<"date">>)
        ELSE IF prop_spec.format = "date-time" THEN PlainType(<<"datetime">>)
        ELSE IF prop_spec.format = "uuid" THEN PlainType(<<"UUID">>)
        ELSE PlainType(<<"str">>)
    ELSE IF prop_spec.type = "integer" THEN PlainType(<<"int">>)
    ELSE IF prop_spec.type = "boolean" THEN PlainType(<<"bool">>)
    ELSE IF prop_spec.type = "number" THEN PlainType(<<"float">>)
    ELSE IF prop_spec.type = "array" THEN
        IF prop_spec.itemsShape = "list" THEN RaisedType("AttributeError")
        ELSE IF prop_spec.itemsShape = "cycle" /\ prop_spec.items[1].type = "array"
        THEN Descend(1)
        ELSE v1_list_type(get_python_type(IF prop_spec.itemsShape = "dict"
                                          \/ prop_spec.itemsShape = "cycle"
                                          THEN prop_spec.items[1]
                                          ELSE EmptyDict))
    ELSE IF prop_spec.type = "object" THEN PlainType(<<"Dict[str, Any]">>)
    ELSE IF prop_spec.type = "null" THEN PlainType(<<"Optional[Any]">>)
    ELSE IF prop_spec.type = "binary" THEN PlainType(<<"bytes">>)
    ELSE IF prop_spec.type = "enum" THEN PlainType(<<"Enum">>)
    ELSE PlainType(<<"Any">>)

\* one field line of generate_model (lines 44-48)
v1_field(prop_name, prop_spec, prop_type, required_fields) ==
    Line("field", prop_name,
         IF prop_spec.nullable = "true"
         THEN <<"Optional[">> \o prop_type \o <<"]">> ELSE prop_type,
         <<"Field(", IF prop_name \in required_fields THEN "..." ELSE "None", ")">>)

\* one pass of the loop body of generate_model on a property whose type
\* mapping gave t, followed by the rest of the loop
v1_loop_body(prop_spec, required_fields, t, rest) ==
    IF t.err # "" THEN [err |-> t.err, lines |-> <<>>, ops |-> t.ops]
    ELSE [err |-> rest.err,
          lines |-> <<v1_field(prop_spec.name, prop_spec, t.type,
                               required_fields)>> \o rest.lines,
          ops |-> t.ops \o rest.ops]

\* the loop of generate_model over properties[i..]: the lines and the enum
\* writes made so far, up to the first exception
RECURSIVE v1_fields(_, _, _)
v1_fields(properties, required_fields, i) ==
    IF i > Len(properties) THEN [err |-> "", lines |-> <<>>, ops |-> <<>>]
    ELSE v1_loop_body(properties[i], required_fields,
                      get_python_type(properties[i]),
                      v1_fields(properties, required_fields, i + 1))

\* lines 50-58: the body (or `pass`), then the write of the model file
v1_write_model(model_name, properties, f) ==
    IF f.err # "" THEN [err |-> f.err, ops |-> f.ops]
    ELSE [err |-> "",
          ops |-> f.ops \o
                  <<WriteOp(PyPath(Lower(model_name)),
                            Content(model_name, "BaseModel",
                                    IF Len(properties) = 0
                                    THEN <<Line("pass", <<>>, <<>>, <<>>)>>
                                    ELSE f.lines),
                            "skip")>>]

\* model_spec.get('properties', {})
properties_of(model_spec) ==
    IF model_spec.hasProps THEN model_spec.props ELSE <<>>

Reverse(seq) ==
    [i \in DOMAIN seq |-> seq[Len(seq) + 1 - i]]

\* mutant: the properties are visited last to first
generate_model_reversed(model_name, model_spec) ==
    v1_write_model(model_name, properties_of(model_spec),
                   v1_fields(Reverse(properties_of(model_spec)),
                             model_spec.required, 1))

\* generate_model: the writes it attempts, in order, and the exception that
\* ends it early (if any)
generate_model(model_name, model_spec) ==
    v1_write_model(model_name, properties_of(model_spec),
                   v1_fields(properties_of(model_spec), model_spec.required, 1))

(***************************************************************************)
(* v2: src/service/scripts/generate_schemas.py.                            *)
(* write_model_to_file opens with 'w' unconditionally: mode "overwrite".   *)
(***************************************************************************)
\* re.sub(r'(?<!^)(?=[A-Z])', '_', schema_name): an underscore before every
\* upper-case letter that is not the first character
RECURSIVE snake_from(_, _)
snake_from(schema_name, i) ==
    IF i > Len(schema_name) THEN <<>>
    ELSE (IF i > 1 /\ IsUpper(schema_name[i])
          THEN <<"_", schema_name[i]>> ELSE <<schema_name[i]>>)
         \o snake_from(schema_name, i + 1)

\* the file path of write_model_to_file (line 101)
v2_path(schema_name) ==
    PyPath(Lower(snake_from(schema_name, 1)))

write_model_to_file(schema_name, model_code) ==
    WriteOp(v2_path(schema_name), model_code, "overwrite")

\* f"{schema_name}_{prop}_item"
nested_raw_name(schema_name, prop) ==
    schema_name \o <<"_">> \o prop \o <<"_","i","t","e","m">>

\* the constraints list of one property, in the order the code appends them
v2_constraints(prop_type, details) ==
    IF prop_type = "string" THEN
        (IF "maxLength" \in details.cons THEN <<"max_length=">> ELSE <<>>)
        \o (IF "minLength" \in details.cons THEN <<"min_length=">> ELSE <<>>)
        \o (IF "pattern" \in details.cons THEN <<"regex=">> ELSE <<>>)
    ELSE IF prop_type = "integer" THEN
        (IF "minimum" \in details.cons THEN <<"ge=">> ELSE <<>>)
        \o (IF "maximum" \in details.cons THEN <<"le=">> ELSE <<>>)
    ELSE <<>>

\* f'Literal{tuple(enum_values)}' over the sanitized values
RECURSIVE tuple_repr(_, _)
tuple_repr(values, i) ==
    IF i > Len(values) THEN <<>>
    ELSE <<"'">> \o values[i] \o <<"'">>
         \o (IF Len(values) = 1 THEN <<",">>
             ELSE IF i < Len(values) THEN <<", ">> ELSE <<>>)
         \o tuple_repr(values, i + 1)

v2_literal(enum_values) ==
    <<"Literal(">>
    \o tuple_repr([i \in DOMAIN enum_values |->
                      sanitize_enum_value(enum_values[i])], 1)
    \o <<")">>

\* the text of a raw 'type' value inside an f-string
raw_type_text(type) ==
    IF type = "[list]" THEN <<"['string', 'null']">> ELSE <<type>>

\* details.get('items', {})
items_of(details) ==
    IF details.itemsShape \in {"dict", "cycle"} THEN details.items[1]
    ELSE EmptyDict

\* lines 76-78: the nested model is generated and written, then named
v2_nested_type(nested_schema_name, nested) ==
    IF nested.err # "" THEN [err |-> nested.err, type |-> <<>>, ops |-> nested.ops]
    ELSE [err |-> "",
          type |-> <<"List[">> \o nested_schema_name \o <<"]">>,
          ops |-> nested.ops \o
                  <<write_model_to_file(nested_schema_name, nested.code)>>]

\* line 81: f'List[{item_type}]' with item_type = items.get('type', 'Any')
v2_list_type(items) ==
    PlainType(<<"List[">>
              \o (IF items.type = "" THEN <<"Any">> ELSE raw_type_text(items.type))
              \o <<"]">>)

RECURSIVE generate_pydantic_model(_, _)
RECURSIVE v2_nested(_, _)
RECURSIVE v2_prop_type(_, _, _)
RECURSIVE v2_fields(_, _, _)

\* lines 74-78 on the sanitized nested name
v2_nested(sanitized, items) ==
    IF sanitized.err # "" THEN RaisedType(sanitized.err)
    ELSE v2_nested_type(sanitized.val,
                        generate_pydantic_model(sanitized.val,
                                                properties_of(items)))

\* the branch over prop_type of one property (lines 51-86): the resulting
\* type text, and the nested artifacts written on the way
v2_prop_type(schema_name, prop, details) ==
    IF details.type = "string" THEN PlainType(<<"str">>)
    ELSE IF details.type = "integer" THEN PlainType(<<"int">>)
    ELSE IF details.type = "boolean" THEN PlainType(<<"bool">>)
    ELSE IF details.type = "array" THEN
        IF details.itemsShape = "list" THEN RaisedType("AttributeError")
        ELSE IF details.itemsShape = "cycle" /\ items_of(details).type = "object"
        THEN Descend(1)
        ELSE IF items_of(details).type = "object"
        THEN v2_nested(sanitize_schema_name(nested_raw_name(schema_name, prop)),
                       items_of(details))
        ELSE v2_list_type(items_of(details))
    ELSE IF details.type = "object" THEN PlainType(<<"dict">>)
    ELSE IF details.hasEnum THEN PlainType(v2_literal(details.enum))
    ELSE IF details.type = "" THEN PlainType(<<"str">>)
    ELSE PlainType(raw_type_text(details.type))

\* lines 89-93: Field(...) with the constraints, if any
v2_field_code(cons) ==
    IF Len(cons) > 0 THEN <<"Field(...", ", ">> \o cons \o <<")">>
    ELSE <<"Field(...)">>

\* one pass of the loop body on a property whose branch gave t, followed by
\* the rest of the loop
v2_loop_body(details, t, rest) ==
    IF t.err # "" THEN [err |-> t.err, lines |-> <<>>, ops |-> t.ops]
    ELSE [err |-> rest.err,
          lines |-> <<Line("field", details.name, t.type,
                           v2_field_code(v2_constraints(details.type, details)))>>
                    \o rest.lines,
          ops |-> t.ops \o rest.ops]

\* the loop over schema_properties[i..], up to the first exception
v2_fields(schema_name, schema_properties, i) ==
    IF i > Len(schema_properties)
    THEN [err |-> "", lines |-> <<>>, ops |-> <<>>]
    ELSE v2_loop_body(schema_properties[i],
                      v2_prop_type(schema_name, schema_properties[i].name,
                                   schema_properties[i]),
                      v2_fields(schema_name, schema_properties, i + 1))

\* lines 47-48 and 97-98: the class line, the fields, the blank line
v2_model_code(sanitized_name, f) ==
    [err |-> f.err,
     code |-> Content(sanitized_name, "BaseModel",
                      f.lines \o <<Line("blank", <<>>, <<>>, <<>>)>>),
     ops |-> f.ops]

\* generate_pydantic_model: the model code it returns, the nested artifacts
\* it has written before returning, and the exception that ends it early
generate_pydantic_model(schema_name, schema_properties) ==
    IF sanitize_schema_name(schema_name).err # ""
    THEN [err |-> sanitize_schema_name(schema_name).err,
          code |-> Content(<<>>, "", <<>>), ops |-> <<>>]
    ELSE v2_model_code(sanitize_schema_name(schema_name).val,
                       v2_fields(schema_name, schema_properties, 1))

\* mutant: the owner is written before its nested models
v2_write_model_first(schema_name, g) ==
    IF g.err # "" THEN [err |-> g.err, ops |-> g.ops]
    ELSE [err |-> "",
          ops |-> <<write_model_to_file(schema_name, g.code)>> \o g.ops]

\* lines 126-127: the model code is written under the raw schema name
v2_write_model(schema_name, g) ==
    IF g.err # "" THEN [err |-> g.err, ops |-> g.ops]
    ELSE [err |-> "",
          ops |-> g.ops \o <<write_model_to_file(schema_name, g.code)>>]

\* one iteration of the loop of generate_schemas (lines 124-127)
v2_generate_schema(schema_name, schema_details) ==
    v2_write_model(schema_name,
                   generate_pydantic_model(schema_name,
                                           properties_of(schema_details)))

(***************************************************************************)
(* v3: src/service/scripts/generate_models.py.                             *)
(* The writer copies an existing target aside, then opens it with 'w':     *)
(* mode "backup".                                                          *)
(***************************************************************************)
\* get_sqlalchemy_column_type: type_mapping.get(openapi_type, String), by the
\* __name__ of the class returned.  A list is unhashable: TypeError.
get_sqlalchemy_column_type(openapi_type) ==
    IF openapi_type = "[list]" THEN [err |-> "TypeError", type |-> <<>>]
    ELSE [err |-> "",
          type |-> IF openapi_type = "integer" THEN <<"Integer">>
                   ELSE IF openapi_type = "string" THEN <<"String">>
                   ELSE IF openapi_type = "number" THEN <<"Float">>
                   ELSE IF openapi_type = "boolean" THEN <<"Boolean">>
                   ELSE IF openapi_type = "object" THEN <<"JSON">>
                   ELSE IF openapi_type = "array" THEN <<"JSON">>
                   ELSE IF openapi_type = "date" THEN <<"Date">>
                   ELSE IF openapi_type = "datetime" THEN <<"DateTime">>
                   ELSE <<"String">>]

\* the column type of one property: prop_details.get('type', 'string')
v3_prop_type(prop_details) ==
    get_sqlalchemy_column_type(
        IF prop_details.type = "" THEN "string" ELSE prop_details.type)

\* mutant: the unique flag is not reproduced
v3_column_args_plain(prop_details) ==
    <<IF prop_details.nullable = "false"
      THEN "nullable=False" ELSE "nullable=True">>
    \o (IF prop_details.hasDefault THEN <<"default=">> ELSE <<>>)
    \o (IF prop_details.primary_key THEN <<"primary_key=True">> ELSE <<>>)

\* the arguments of Column(...) after the type (lines 167-175)
v3_column_args(prop_details) ==
    <<IF prop_details.nullable = "false"
      THEN "nullable=False" ELSE "nullable=True">>
    \o (IF prop_details.hasDefault THEN <<"default=">> ELSE <<>>)
    \o (IF prop_details.unique THEN <<"unique=True">> ELSE <<>>)
    \o (IF prop_details.primary_key THEN <<"primary_key=True">> ELSE <<>>)

\* one pass of the loop body on a property whose column type is t, followed
\* by the rest of the loop
v3_loop_body(prop_details, t, rest) ==
    IF t.err # "" THEN [err |-> t.err, lines |-> <<>>]
    ELSE [err |-> rest.err,
          lines |-> <<Line("field", prop_details.name, t.type,
                           v3_column_args(prop_details))>> \o rest.lines]

\* the column lines of properties[i..], up to the first exception
RECURSIVE v3_columns(_, _)
v3_columns(properties, i) ==
    IF i > Len(properties) THEN [err |-> "", lines |-> <<>>]
    ELSE v3_loop_body(properties[i], v3_prop_type(properties[i]),
                      v3_columns(properties, i + 1))

\* table_args: one Index(...) per property with index set, in order
RECURSIVE v3_table_args(_, _)
v3_table_args(properties, i) ==
    IF i > Len(properties) THEN <<>>
    ELSE (IF properties[i].index
          THEN <<"Index('">> \o properties[i].name \o <<"_idx', '">>
               \o properties[i].name \o <<"')">>
          ELSE <<>>)
         \o v3_table_args(properties, i + 1)

\* mutant: the flag is reset by every pass of the loop
primary_key_added_last(properties) ==
    Len(properties) > 0 /\ properties[Len(properties)].primary_key

\* primary_key_added after the loop
primary_key_added(properties) ==
    \E i \in DOMAIN properties : properties[i].primary_key

\* "    id = Column(Integer, primary_key=True, autoincrement=True)"
v3_id_line ==
    Line("field", <<"i","d">>, <<"Integer">>,
         <<"primary_key=True", "autoincrement=True">>)

\* lines 186-187: the __table_args__ line, if any index was collected
v3_table_args_line(table_args) ==
    IF Len(table_args) > 0
    THEN <<Line("attr", <<"__table_args__">>, <<>>, table_args)>>
    ELSE <<>>

\* the lines of the class body of one model (lines 145-187)
v3_model_lines(schema_name, properties, columns) ==
    <<Line("attr", <<"__tablename__">>, <<>>, Lower(schema_name))>>
    \o columns
    \o (IF ~primary_key_added(properties) THEN <<v3_id_line>> ELSE <<>>)
    \o v3_table_args_line(v3_table_args(properties, 1))

\* lines 155-207 of one iteration, given the column lines c
v3_write_model(schema_name, properties, c) ==
    IF c.err # "" THEN [err |-> c.err, ops |-> <<>>, skipped |-> FALSE]
    ELSE [err |-> "", skipped |-> FALSE,
          ops |-> <<WriteOp(PyPath(Lower(schema_name)),
                            Content(schema_name, "Base",
                                    v3_model_lines(schema_name, properties,
                                                   c.lines)),
                            "backup")>>]

\* mutant: the name is not matched against VALID_CLASS_NAME_PATTERN
v3_generate_schema_unchecked(schema_name, schema_details) ==
    IF ~schema_details.hasProps
    THEN [err |-> "", ops |-> <<>>, skipped |-> TRUE]
    ELSE v3_write_model(schema_name, schema_details.props,
                        v3_columns(schema_details.props, 1))

\* one iteration of the loop of generate_sqlalchemy_models (lines 135-207):
\* skipped is TRUE when the iteration ends with `continue`
v3_generate_schema(schema_name, schema_details) ==
    IF ~ValidClassName(schema_name) \/ ~schema_details.hasProps
    THEN [err |-> "", ops |-> <<>>, skipped |-> TRUE]
    ELSE v3_write_model(schema_name, schema_details.props,
                        v3_columns(schema_details.props, 1))

(***************************************************************************)
(* The writers, applied to the output directory.                           *)
(***************************************************************************)
\* mutant: the exists() check is dropped
write_if_absent_unchecked(dir, path, content) ==
    WriteFile(dir, path, content)

\* v1 lines 55-58 and 103-106: if not path.exists(): open('w'), write
write_if_absent(dir, path, content) ==
    IF Exists(dir, path) THEN dir ELSE WriteFile(dir, path, content)

\* mutant: the write leaves nothing else in the directory
write_overwrite_alone(dir, path, content) ==
    [q \in {path} |-> content]

\* v2 lines 102-103: open(file_path, 'w'), write
write_overwrite(dir, path, content) ==
    WriteFile(dir, path, content)

\* v3 lines 191-194: an existing target is copied to the backup path
backup_if_exists(dir, path, now) ==
    IF Exists(dir, path)
    THEN WriteFile(dir, BackupPath(path, now), dir[path])
    ELSE dir

\* mutant: the target is overwritten first and copied aside afterwards
write_with_backup_late(dir, path, content, now) ==
    backup_if_exists(WriteFile(dir, path, content), path, now)

\* v3 lines 190-200: the backup, then open('w'), write
write_with_backup(dir, path, content, now) ==
    WriteFile(backup_if_exists(dir, path, now), path, content)

\* one write that succeeds, under the policy of its call site
ApplyOp(dir, op, now) ==
    IF op.mode = "skip" THEN write_if_absent(dir, op.path, op.content)
    ELSE IF op.mode = "backup"
    THEN write_with_backup(dir, op.path, op.content, now)
    ELSE write_overwrite(dir, op.path, op.content)

\* the first n writes of ops, in order
RECURSIVE ApplyOps(_, _, _, _)
ApplyOps(dir, ops, n, now) ==
    IF n = 0 THEN dir
    ELSE ApplyOp(ApplyOps(dir, ops, n - 1, now), ops[n], now)

\* whether the write opens a file at all (a skipped write cannot fail)
Opens(dir, op) ==
    op.mode # "skip" \/ ~Exists(dir, op.path)

\* the directories a write can leave behind when it raises PermissionError:
\* nothing done, or (v3) the backup copied and the open() refused
FailOp(dir, op, now) ==
    {dir} \cup
    (IF op.mode = "backup" THEN {backup_if_exists(dir, op.path, now)} ELSE {})

(***************************************************************************)
(* Bounds and the input descriptions explored.                             *)
(***************************************************************************)
\* handler calls in one behaviour, over all runs
MaxSteps == 3

\* the last second the wall clock reaches
MaxClock == 2

\* longest raw name handed to the sanitizer alone
MaxRawLen == 3

\* characters of the raw names handed to the sanitizer alone
RawAlphabet ==
    {"A", "b", "1", "_", "-"}

RECURSIVE NamesUpTo(_)
NamesUpTo(n) ==
    IF n = 0 THEN {<<>>}
    ELSE LET shorter == NamesUpTo(n - 1)
         IN  shorter \cup {Append(w, c) : w \in shorter, c \in RawAlphabet}

RawNames ==
    NamesUpTo(MaxRawLen)

\* schemas of the descriptions given to v1
V1Schemas ==
    LET x == Prop(<<"x">>, "string")
        y == [Prop(<<"y">>, "integer") EXCEPT !.nullable = "true"]
        z == Prop(<<"z">>, "boolean")
        s == WithTitle(WithEnum(Prop(<<"s">>, "string"),
                                <<StrVal(<<"a","-","b">>), StrVal(<<"c">>)>>),
                       <<"S">>)
        t == WithTitle(WithEnum(Prop(<<"t">>, "string"), <<StrVal(<<"c">>)>>),
                       <<"s">>)
        u == WithEnum(Prop(<<"u">>, "string"), <<StrVal(<<"b">>)>>)
        v == WithListItems(Prop(<<"v">>, "array"))
        w == WithItems(Prop(<<"w">>, "array"),
                       WithEnum(Prop(<<>>, "string"), <<NonStrVal(<<"1">>)>>))
    IN  {Schema(<<"A">>, <<y, x, z>>, {<<"x">>}),
         Schema(<<"A">>, <<s, x>>, {}),
         Schema(<<"B">>, <<t>>, {<<"t">>}),
         Schema(<<"a">>, <<u>>, {}),
         Schema(<<"a">>, <<>>, {}),
         Schema(<<"B">>, <<x, v>>, {}),
         Schema(<<"B">>, <<u, w>>, {}),
         [Schema(<<"1","-">>, <<>>, {}) EXCEPT !.hasProps = FALSE]}

\* schemas of the descriptions given to v2
V2Schemas ==
    LET x == [Prop(<<"x">>, "string") EXCEPT !.cons = {"maxLength"}]
        y == Prop(<<"y">>, "integer")
        d == Prop(<<"d">>, "integer")
        obj(ps) == WithProps(Prop(<<>>, "object"), ps)
        arr(n, item) == WithItems(Prop(n, "array"), item)
        b1 == arr(<<"b">>, obj(<<Prop(<<"c">>, "string")>>))
        b2 == arr(<<"b">>, obj(<<d, arr(<<"c">>, obj(<<y>>))>>))
        b0 == arr(<<"b">>, Prop(<<>>, "object"))
        z == arr(<<"z">>, Prop(<<>>, "string"))
        e == WithEnum(Prop(<<"e">>, ""), <<StrVal(<<"a","-","b">>)>>)
        v == WithListItems(Prop(<<"v">>, "array"))
    IN  {Schema(<<"A">>, <<b1>>, {}),
         Schema(<<"A">>, <<x, b2, y>>, {<<"x">>}),
         Schema(<<"1","-">>, <<b0>>, {}),
         Schema(<<"-">>, <<x>>, {}),
         Schema(<<"B">>, <<z, e>>, {}),
         Schema(<<"B">>, <<y, v>>, {}),
         Schema(<<"A","_","b","_","i","t","e","m">>, <<y>>, {}),
         [Schema(<<"b">>, <<>>, {}) EXCEPT !.hasProps = FALSE]}

\* schemas of the descriptions given to v3
V3Schemas ==
    LET x == Prop(<<"x">>, "string")
        y == Prop(<<"y">>, "number")
        k == [Prop(<<"k">>, "integer") EXCEPT !.primary_key = TRUE,
                                              !.nullable = "false"]
        j == [Prop(<<"j">>, "integer") EXCEPT !.primary_key = TRUE]
        u == [Prop(<<"u">>, "string") EXCEPT !.unique = TRUE, !.index = TRUE,
                                             !.hasDefault = TRUE]
        id == Prop(<<"i","d">>, "string")
        l == Prop(<<"l">>, "[list]")
        i == [Prop(<<"i">>, "integer") EXCEPT !.index = TRUE]
        q == [Prop(<<"q">>, "string") EXCEPT !.unique = TRUE]
    IN  {Schema(<<"A">>, <<x>>, {}),
         Schema(<<"A">>, <<k, u>>, {}),
         Schema(<<"a">>, <<k, j>>, {}),
         Schema(<<"a">>, <<y, x, id>>, {}),
         Schema(<<"1","A">>, <<x>>, {}),
         Schema(<<"B">>, <<x, l>>, {}),
         Schema(<<"B">>, <<i, q, x>>, {}),
         [Schema(<<"B">>, <<>>, {}) EXCEPT !.hasProps = FALSE]}

(***************************************************************************)
(* The generator runs.                                                     *)
(***************************************************************************)
\* a v1 or v2 handler result, which never ends with `continue`
NotSkipped(g) ==
    [err |-> g.err, ops |-> g.ops, skipped |-> FALSE]

EmptyDir ==
    [q \in {} |-> Content(<<>>, "", <<>>)]

\* last: the schema the handler was called on, the writes it set out to do
\* (ops), how many of them were done, the exception of the handler itself
\* (own_err), the exception the call ended with (err), and the clock it read
NoCall ==
    [name |-> <<>>, schema |-> Schema(<<>>, <<>>, {}), ops |-> <<>>,
     done |-> 0, own_err |-> "", err |-> "", skipped |-> FALSE, now |-> 0]

SanIdle ==
    san = [raw |-> <<>>, done |-> FALSE, err |-> "", val |-> <<>>]

Idle ==
    /\ SanIdle
    /\ tm = [on |-> FALSE]
    /\ twice = [on |-> FALSE]

\* the shapes of a description the loaders tell apart: the root of the YAML
\* document, the key `components`, the key `schemas` in it, and whether
\* every schema has the key `properties`
Description(root, components, schemas, properties) ==
    [root |-> root, components |-> components, schemas |-> schemas,
     properties |-> properties]

Descriptions ==
    {Description("list", FALSE, FALSE, FALSE),
     Description("mapping", FALSE, FALSE, FALSE),
     Description("mapping", TRUE, FALSE, FALSE),
     Description("mapping", TRUE, TRUE, FALSE),
     Description("mapping", TRUE, TRUE, TRUE)}

\* v1 lines 19-27 and 109: nothing is checked after yaml.safe_load; the loop
\* runs only if both membership tests hold (`in` on a list is False)
v1_load(d) ==
    [err |-> "", generate |-> d.root = "mapping" /\ d.components /\ d.schemas]

\* v2 lines 18-24 and 121
v2_parse_openapi_spec(d) ==
    IF d.root # "mapping" \/ ~d.components
    THEN [err |-> "ValueError", generate |-> FALSE]
    ELSE [err |-> "", generate |-> d.schemas]

\* v3 lines 64-80
v3_parse_openapi_spec(d) ==
    IF d.root # "mapping" \/ ~d.components \/ ~d.schemas \/ ~d.properties
    THEN [err |-> "ValueError", generate |-> FALSE]
    ELSE [err |-> "", generate |-> TRUE]

LoadOf(v, d) ==
    IF v = "v1" THEN v1_load(d)
    ELSE IF v = "v2" THEN v2_parse_openapi_spec(d)
    ELSE v3_parse_openapi_spec(d)

\* the exit status of the process when exception err ends the run: v1 and v2
\* let it reach the interpreter, the __main__ block of v3 catches Exception
\* and only logs it
exit_status(v, err) ==
    IF err = "" \/ v = "v3" THEN "exit 0" ELSE "exit 1"

\* run: the description of the run, the directory it started from, the
\* paths its writes have targeted so far, the exception that ended it ("" if
\* none) and the exit status of the process
NoRun ==
    [desc |-> Description("mapping", TRUE, TRUE, TRUE), dir0 |-> EmptyDir,
     emitted |-> {}, err |-> "", exit |-> "none"]

\* the paths of the first n writes of ops
Targets(ops, n) ==
    {ops[i].path : i \in 1..n}

\* a schema the loader of v lets through (v3 lines 77-79)
Loadable(v, s) ==
    v = "v3" => s.hasProps

\* a schema that can be an entry of description d: one without the key
\* `properties` is found only where d says some entry lacks it
EntryOf(d, s) ==
    s.hasProps \/ ~d.properties

RunIdle ==
    /\ variant = "none"
    /\ run = NoRun
    /\ fs = EmptyDir
    /\ pc = "off"
    /\ seen = {}
    /\ last = NoCall
    /\ clock = 0
    /\ steps = 0

Init ==
    /\ variant \in {"v1", "v2", "v3"}
    /\ fs = EmptyDir
    /\ pc = "idle"
    /\ seen = {}
    /\ last = NoCall
    /\ clock = 1
    /\ steps = 0
    /\ run = NoRun
    /\ Idle

\* the program is started on description d: the loader either raises, or
\* finds nothing to generate, or the loop over schemas.items() begins
StartRun ==
    /\ pc = "idle"
    /\ steps < MaxSteps
    /\ seen' = {}
    /\ \E d \in Descriptions :
         /\ pc' = IF LoadOf(variant, d).generate THEN "run" ELSE "idle"
         /\ run' = [desc |-> d, dir0 |-> fs, emitted |-> {},
                    err |-> LoadOf(variant, d).err,
                    exit |-> IF LoadOf(variant, d).generate THEN "none"
                             ELSE exit_status(variant, LoadOf(variant, d).err)]
    /\ UNCHANGED <<variant, fs, last, clock, steps, san, tm, twice>>

\* the loop has visited every schema of the description
EndRun ==
    /\ pc = "run"
    /\ pc' = "idle"
    /\ run' = [run EXCEPT !.exit = "exit 0"]
    /\ UNCHANGED <<variant, fs, seen, last, clock, steps, san, tm, twice>>

\* one iteration of the loop on schema s, whose handler attempts r.ops and
\* raises r.err; the clock is read as `now`.  Either every write succeeds, or
\* write n + 1 raises PermissionError and ends the run.
Iterate(s, r, now) ==
    /\ pc = "run"
    /\ steps < MaxSteps
    /\ s.name \notin seen
    /\ Loadable(variant, s)
    /\ EntryOf(run.desc, s)
    /\ steps' = steps + 1
    /\ seen' = seen \cup {s.name}
    /\ clock' = now
    /\ \E n \in 0..Len(r.ops) :
         LET d == ApplyOps(fs, r.ops, n, now)
             call == [name |-> s.name, schema |-> s, ops |-> r.ops, done |-> n,
                      own_err |-> r.err, err |-> r.err,
                      skipped |-> r.skipped, now |-> now]
         IN  \/ /\ n = Len(r.ops)
                /\ fs' = d
                /\ last' = call
                /\ pc' = IF r.err = "" THEN "run" ELSE "idle"
                /\ run' = [run EXCEPT
                              !.emitted = @ \cup Targets(r.ops, n),
                              !.err = r.err,
                              !.exit = IF r.err = "" THEN @
                                       ELSE exit_status(variant, r.err)]
             \/ /\ n < Len(r.ops)
                /\ Opens(d, r.ops[n + 1])
                /\ fs' \in FailOp(d, r.ops[n + 1], now)
                /\ last' = [call EXCEPT !.err = "PermissionError"]
                /\ pc' = "idle"
                /\ run' = [run EXCEPT
                              !.emitted = @ \cup Targets(r.ops, n),
                              !.err = "PermissionError",
                              !.exit = exit_status(variant, "PermissionError")]
    /\ UNCHANGED <<variant, san, tm, twice>>

V1GenerateModel ==
    /\ variant = "v1"
    /\ \E s \in V1Schemas :
         Iterate(s, NotSkipped(generate_model(s.name, s)), clock)

V2GenerateSchema ==
    /\ variant = "v2"
    /\ \E s \in V2Schemas :
         Iterate(s, NotSkipped(v2_generate_schema(s.name, s)), clock)

V3GenerateModel ==
    /\ variant = "v3"
    /\ \E s \in V3Schemas, now \in clock..MaxClock :
         Iterate(s, v3_generate_schema(s.name, s), now)

Next ==
    \/ StartRun
    \/ EndRun
    \/ V1GenerateModel
    \/ V2GenerateSchema
    \/ V3GenerateModel

Spec ==
    Init /\ [][Next]_vars

(***************************************************************************)
(* The sanitizer alone, on every raw name up to MaxRawLen.                 *)
(***************************************************************************)
InitSan ==
    /\ RunIdle
    /\ san \in {[raw |-> r, done |-> FALSE, err |-> "", val |-> <<>>] :
                   r \in RawNames}
    /\ tm = [on |-> FALSE]
    /\ twice = [on |-> FALSE]

Sanitize ==
    /\ ~san.done
    /\ LET r == sanitize_schema_name(san.raw)
       IN  san' = [raw |-> san.raw, done |-> TRUE, err |-> r.err, val |-> r.val]
    /\ UNCHANGED <<variant, fs, pc, seen, last, clock, steps, tm, twice, run>>

NextSan ==
    Sanitize

SpecSan ==
    InitSan /\ [][NextSan]_vars

(***************************************************************************)
(* The type mappers alone, on every property up to MaxItemsDepth levels    *)
(* of items.                                                               *)
(***************************************************************************)
\* levels of nested `items` in the properties handed to the type mappers
MaxItemsDepth == 2

\* values of 'type' tried: the kinds the generators know, an unknown kind,
\* an absent key and a list
TypeNames ==
    {"", "string", "integer", "number", "boolean", "object", "null",
     "binary", "enum", "date", "weird", "[list]"}

Formats ==
    {"", "date", "date-time", "uuid", "binary"}

\* properties without items
ScalarProps ==
    {Prop(<<"p">>, t) : t \in TypeNames}
    \cup {WithFormat(Prop(<<"p">>, "string"), f) : f \in Formats}
    \cup {WithEnum(WithFormat(Prop(<<"p">>, "string"), f), vs) :
             f \in {"", "date"},
             vs \in {<<StrVal(<<"a">>), StrVal(<<"b","-","c">>)>>,
                     <<NonStrVal(<<"1">>)>>}}
    \cup {WithEnum(Prop(<<"p">>, t), <<StrVal(<<"a","-","b">>)>>) :
             t \in {"", "number"}}
    \cup {WithProps(Prop(<<"p">>, "object"), <<Prop(<<"q">>, "string")>>)}

RECURSIVE MapProps(_)
MapProps(depth) ==
    IF depth = 0
    THEN ScalarProps
         \cup {Prop(<<"p">>, "array"), WithListItems(Prop(<<"p">>, "array"))}
         \cup {WithCycle(Prop(<<"p">>, "array"), t) : t \in {"array", "object"}}
    ELSE LET inner == MapProps(depth - 1)
         IN  inner \cup {WithItems(Prop(<<"p">>, "array"), i) : i \in inner}

InitMap ==
    /\ RunIdle
    /\ SanIdle
    /\ tm \in {[on |-> TRUE, prop |-> p, by |-> "", err |-> "", type |-> <<>>] :
                  p \in MapProps(MaxItemsDepth)}
    /\ twice = [on |-> FALSE]

Mapped(by, r) ==
    /\ tm.by = ""
    /\ tm' = [tm EXCEPT !.by = by, !.err = r.err, !.type = r.type]
    /\ UNCHANGED <<variant, fs, pc, seen, last, clock, steps, san, twice, run>>

MapV1 ==
    Mapped("v1", get_python_type(tm.prop))

MapV2 ==
    Mapped("v2", v2_prop_type(<<"A">>, tm.prop.name, tm.prop))

MapV3 ==
    Mapped("v3", v3_prop_type(tm.prop))

NextMap ==
    \/ MapV1
    \/ MapV2
    \/ MapV3

SpecMap ==
    InitMap /\ [][NextMap]_vars

(***************************************************************************)
(* One generator run twice on the same description, each time into an      *)
(* empty output directory: the first run reveals the description one       *)
(* schema at a time, the second run replays it later on the same clock.    *)
(* No write fails in either run.                                           *)
(***************************************************************************)
SchemasOf(v) ==
    IF v = "v1" THEN V1Schemas ELSE IF v = "v2" THEN V2Schemas ELSE V3Schemas

\* one iteration of the loop of generator v on schema s
HandlerOf(v, s) ==
    IF v = "v1" THEN NotSkipped(generate_model(s.name, s))
    ELSE IF v = "v2" THEN NotSkipped(v2_generate_schema(s.name, s))
    ELSE v3_generate_schema(s.name, s)

InitTwice ==
    /\ RunIdle
    /\ SanIdle
    /\ tm = [on |-> FALSE]
    /\ twice \in {[on |-> TRUE, variant |-> v, phase |-> "first", desc |-> <<>>,
                   i |-> 1, first |-> EmptyDir, dir |-> EmptyDir, clock |-> 1,
                   raised |-> FALSE] : v \in {"v1", "v2", "v3"}}

\* the state of the run after one iteration whose handler did r
TwiceApply(r, now) ==
    [twice EXCEPT !.dir = ApplyOps(@, r.ops, Len(r.ops), now),
                  !.clock = now,
                  !.raised = (r.err # "")]

\* first run: the loop takes the next schema of the description
TwiceFirst ==
    /\ twice.on /\ twice.phase = "first" /\ ~twice.raised
    /\ Len(twice.desc) < MaxSteps
    /\ \E s \in SchemasOf(twice.variant), now \in twice.clock..MaxClock :
         /\ \A k \in DOMAIN twice.desc : twice.desc[k].name # s.name
         /\ Loadable(twice.variant, s)
         /\ twice' = [TwiceApply(HandlerOf(twice.variant, s), now)
                         EXCEPT !.desc = Append(@, s)]
    /\ UNCHANGED <<variant, fs, pc, seen, last, clock, steps, san, tm, run>>

\* the first run is over; the second starts on an empty directory
TwiceRestart ==
    /\ twice.on /\ twice.phase = "first"
    /\ twice' = [twice EXCEPT !.phase = "second", !.first = twice.dir,
                              !.dir = EmptyDir, !.raised = FALSE]
    /\ UNCHANGED <<variant, fs, pc, seen, last, clock, steps, san, tm, run>>

\* second run: the loop takes the same schema as the first run did
TwiceSecond ==
    /\ twice.on /\ twice.phase = "second" /\ ~twice.raised
    /\ twice.i <= Len(twice.desc)
    /\ \E now \in twice.clock..(MaxClock + 1) :
         twice' = [TwiceApply(HandlerOf(twice.variant, twice.desc[twice.i]), now)
                      EXCEPT !.i = @ + 1]
    /\ UNCHANGED <<variant, fs, pc, seen, last, clock, steps, san, tm, run>>

\* the second run has ended, as the first one did
TwiceDone ==
    /\ twice.on /\ twice.phase = "second"
    /\ twice.raised \/ twice.i > Len(twice.desc)

NextTwice ==
    \/ TwiceFirst
    \/ TwiceRestart
    \/ TwiceSecond

SpecTwice ==
    InitTwice /\ [][NextTwice]_vars

(***************************************************************************)
(* Claims                                                                  *)
(***************************************************************************)
\* C1: type mapping is total: whatever the property (any declared type, a
\* missing type, any format, any shape of items, any nesting depth), the
\* type-mapping step of each generator returns one target type and raises
\* nothing.
C1_MappingTotal ==
    tm.on /\ tm.by # "" => tm.err = "" /\ Len(tm.type) > 0

\* C10: for every raw name, the empty one and those made only of invalid
\* characters included, the sanitizer returns without raising a non-empty
\* identifier made of [A-Za-z0-9_] that does not start with a digit.
C10_SanitizeTotal ==
    san.done => san.err = "" /\ ValidClassName(san.val)

\* C2: running the generator twice on the same unchanged description, each
\* time into an empty output directory, gives the same set of output paths
\* with identical content in both runs.
C2_TwiceSame ==
    twice.on /\ TwiceDone => twice.dir = twice.first

\* C3: under the skip-if-exists policy (v1), once an output path exists its
\* content is never changed by any later write attempt or later run, the
\* input description changed or not.
C3_SkipNeverChanges ==
    [][variant = "v1" =>
          \A q \in DOMAIN fs : q \in DOMAIN fs' /\ fs'[q] = fs[q]]_vars

\* a write of v1 was skipped on a path that holds another content
C3_Witness ==
    /\ variant = "v1"
    /\ last.done = Len(last.ops)
    /\ \E i \in DOMAIN last.ops :
         /\ last.ops[i].path \in DOMAIN fs
         /\ fs[last.ops[i].path] # last.ops[i].content

IsBackup(q) ==
    q.ext = "bak"

\* C4: under the backup-then-overwrite policy (v3), a write whose target
\* exists with content c leaves c in a backup file whose suffix carries the
\* timestamp and the new content in the target, and adds nothing else; a
\* write whose target does not exist creates no backup.
C4_BackupThenOverwrite ==
    [][(variant = "v3" /\ steps' = steps + 1 /\ last'.done = 1) =>
          LET target == last'.ops[1].path
          IN  /\ target \in DOMAIN fs'
              /\ fs'[target] = last'.ops[1].content
              /\ IF target \in DOMAIN fs
                 THEN \E b \in DOMAIN fs' :
                        /\ IsBackup(b) /\ b.stem = target.stem
                        /\ b.ts = last'.now
                        /\ fs'[b] = fs[target]
                        /\ DOMAIN fs' = DOMAIN fs \cup {b}
                 ELSE DOMAIN fs' = DOMAIN fs \cup {target}]_vars

\* a v3 write has just put the old content of its target into a backup
C4_Witness ==
    /\ variant = "v3"
    /\ last.done = 1
    /\ \E b \in DOMAIN fs :
         /\ IsBackup(b) /\ b.ts = last.now /\ b.stem = last.ops[1].path.stem
         /\ fs[b] # fs[last.ops[1].path]

FieldLines(content) ==
    SelectSeq(content.lines, LAMBDA l : l.kind = "field")

\* the characters a name is made of (a literal of a template is one token of
\* several characters)
NameChars ==
    WordChars \cup RawAlphabet

IsName(tokens) ==
    Len(tokens) > 0 /\ \A i \in DOMAIN tokens : tokens[i] \in NameChars

\* the element type of a List[...] type text (empty for any other type)
ListElement(type) ==
    IF Len(type) >= 3 /\ type[1] = "List[" /\ type[Len(type)] = "]"
    THEN SubSeq(type, 2, Len(type) - 1)
    ELSE <<>>

IsArrayOfObject(p) ==
    p.type = "array" /\ p.itemsShape = "dict" /\ p.items[1].type = "object"

\* `{owner}_{property}_item`, sanitized
ItemModelName(owner, property) ==
    sanitize_schema_name(owner \o <<"_">> \o property
                         \o <<"_","i","t","e","m">>).val

\* C5: (v2) for a schema S with an array-of-object property p, the field p of
\* S has type sequence-of the sanitized name `{S}_{p}_item`; and at every
\* nesting depth, an artifact whose field refers to a satellite as a sequence
\* names it `{owner}_{field}_item` sanitized, and the artifact declaring the
\* class of exactly that name is written before the one that refers to it.
C5_NestedBeforeOwner ==
    (variant = "v2" /\ last.err = "" /\ Len(last.ops) > 0) =>
        /\ \A k \in DOMAIN last.schema.props :
             IsArrayOfObject(last.schema.props[k]) =>
                 FieldLines(last.ops[Len(last.ops)].content)[k].type
                     = <<"List[">>
                       \o ItemModelName(last.name, last.schema.props[k].name)
                       \o <<"]">>
        /\ \A i \in DOMAIN last.ops :
             \A k \in DOMAIN FieldLines(last.ops[i].content) :
                 LET line == FieldLines(last.ops[i].content)[k]
                 IN  IsName(ListElement(line.type)) =>
                       /\ ListElement(line.type)
                              = ItemModelName(last.ops[i].content.cls, line.name)
                       /\ \E j \in 1..(i - 1) :
                            last.ops[j].content.cls = ListElement(line.type)

\* v2 has written a schema with two levels of array-of-object properties
C5_Witness ==
    /\ variant = "v2"
    /\ last.err = ""
    /\ Len(last.ops) >= 3
    /\ last.done = Len(last.ops)
    /\ \E k \in DOMAIN last.schema.props : IsArrayOfObject(last.schema.props[k])

\* a type text without its List[...] and Optional[...] wrappers
RECURSIVE Unwrapped(_)
Unwrapped(type) ==
    IF Len(type) >= 2 /\ type[1] \in {"List[", "Optional["}
       /\ type[Len(type)] = "]"
    THEN Unwrapped(SubSeq(type, 2, Len(type) - 1))
    ELSE type

\* C6: in every reachable state of the output directory, a run that aborts
\* included, every model or enumeration name a written artifact refers to
\* has its own definition artifact written.
C6_NoDanglingReference ==
    \A q \in DOMAIN fs :
        \A k \in DOMAIN FieldLines(fs[q]) :
            IsName(Unwrapped(FieldLines(fs[q])[k].type)) =>
                \E d \in DOMAIN fs :
                    fs[d].cls = Unwrapped(FieldLines(fs[q])[k].type)

\* C7: a string property with an inline enum of n values gives a named
\* enumeration artifact whose members are the n values, upper-cased and with
\* invalid identifier characters replaced by `_`, in source order, and the
\* field of the owning model has the name of that enumeration as its type.
C7_EnumMembers ==
    (variant \in {"v1", "v2"} /\ last.err = "" /\ Len(last.ops) > 0) =>
        \A k \in DOMAIN last.schema.props :
            (last.schema.props[k].type = "string" /\ last.schema.props[k].hasEnum)
            => \E d \in DOMAIN fs :
                 /\ fs[d].cls = FieldLines(last.ops[Len(last.ops)].content)[k].type
                 /\ \A i \in DOMAIN fs[d].lines : fs[d].lines[i].kind = "member"
                 /\ [i \in DOMAIN fs[d].lines |-> fs[d].lines[i].name]
                        = [i \in DOMAIN last.schema.props[k].enum |->
                              Upper(ReplaceInvalid(
                                  last.schema.props[k].enum[i].text))]

IsPrimary(line) ==
    "primary_key=True" \in Range(line.rhs)

PrimaryCount(content) ==
    Cardinality({k \in DOMAIN FieldLines(content) :
                    IsPrimary(FieldLines(content)[k])})

\* C8 as stated: every persistence-flavor model emitted has exactly one
\* field marked as primary identity.
C8_ExactlyOnePrimary ==
    variant = "v3" => \A q \in DOMAIN fs : PrimaryCount(fs[q]) = 1

\* C8 amended: every persistence-flavor model emitted has at least one field
\* marked primary; its declared fields are marked primary exactly where the
\* source property is, and when no source property is marked primary one
\* synthetic auto-incrementing identity field is appended after all the
\* declared fields (and none otherwise).
C8_PrimaryFields ==
    /\ variant = "v3" => \A q \in DOMAIN fs : PrimaryCount(fs[q]) >= 1
    /\ (variant = "v3" /\ Len(last.ops) = 1) =>
          LET props == last.schema.props
              f == FieldLines(last.ops[1].content)
              n == Len(props)
          IN  /\ Len(f) >= n
              /\ \A k \in 1..n : IsPrimary(f[k]) <=> props[k].primary_key
              /\ IF \E k \in 1..n : props[k].primary_key
                 THEN Len(f) = n
                 ELSE /\ Len(f) = n + 1
                      /\ IsPrimary(f[n + 1])
                      /\ "autoincrement=True" \in Range(f[n + 1].rhs)

\* v3 has written a model with a primary property that is not the last one,
\* and the directory also holds a model with the synthetic identity field
C8_Witness ==
    /\ variant = "v3"
    /\ last.done = 1
    /\ \E k \in DOMAIN last.schema.props :
         last.schema.props[k].primary_key /\ k < Len(last.schema.props)
    /\ \E q \in DOMAIN fs :
         \E k \in DOMAIN fs[q].lines :
             "autoincrement=True" \in Range(fs[q].lines[k].rhs)

\* C9: in every flavor, the declared fields of the emitted model are the
\* properties of the source schema, one field per property, in declaration
\* order (the synthetic identity field of v3 comes after them).
C9_FieldOrder ==
    (last.own_err = "" /\ ~last.skipped /\ Len(last.ops) > 0) =>
        LET props == properties_of(last.schema)
            f == FieldLines(last.ops[Len(last.ops)].content)
            n == Len(props)
        IN  /\ Len(f) >= n
            /\ [k \in 1..n |-> f[k].name] = [k \in 1..n |-> props[k].name]
            /\ \/ Len(f) = n
               \/ /\ variant = "v3"
                  /\ Len(f) = n + 1
                  /\ "autoincrement=True" \in Range(f[n + 1].rhs)

\* a model of three properties declared out of alphabetical order is written
C9_Witness ==
    /\ last.err = ""
    /\ Len(last.ops) > 0
    /\ last.done = Len(last.ops)
    /\ Len(last.schema.props) >= 3
    /\ last.schema.props[1].name # last.schema.props[2].name
    /\ last.ops[Len(last.ops)].path \in DOMAIN fs
    /\ fs[last.ops[Len(last.ops)].path] = last.ops[Len(last.ops)].content

\* C11: a run on a description whose root is not a mapping, or that has no
\* `components` key, ends with a malformed-description error and leaves the
\* output directory as it found it.
C11_MalformedFails ==
    (run.exit # "none" /\ (run.desc.root # "mapping" \/ ~run.desc.components))
        => (run.err = "ValueError" /\ fs = run.dir0)

\* C12: a write that fails ends the run with the error reaching the caller
\* of the program (a failing exit status), and the artifacts the failed call
\* had written before it are still there.
C12_WriteFailurePropagates ==
    (pc = "idle" /\ run.err = "PermissionError") =>
        /\ run.exit = "exit 1"
        /\ \A i \in 1..last.done : last.ops[i].path \in DOMAIN fs

\* the writes the last handler call attempted: the ones done and the one
\* that failed, if one did
Attempted(call) ==
    {call.ops[i].path :
        i \in {j \in DOMAIN call.ops :
                 j <= call.done + (IF call.err = "PermissionError" THEN 1 ELSE 0)}}

\* C13: a step changes no file but the targets of the writes it makes, plus,
\* under the backup policy, one backup file per target that existed (named
\* after the target and the timestamp); no file is removed; and a call that
\* writes one artifact changes its target and nothing else but that backup.
C13_WriteFrame ==
    [][/\ DOMAIN fs \subseteq DOMAIN fs'
       /\ \A q \in DOMAIN fs' :
            (q \notin DOMAIN fs \/ fs'[q] # fs[q]) =>
                /\ steps' = steps + 1
                /\ \/ q \in Attempted(last')
                   \/ /\ variant = "v3"
                      /\ \E t \in Attempted(last') :
                           t \in DOMAIN fs /\ q = [t EXCEPT !.ext = "bak",
                                                            !.ts = last'.now]
       /\ (steps' = steps + 1 /\ Len(last'.ops) = 1 /\ last'.done = 1
           /\ last'.ops[1].mode # "skip") =>
              /\ fs'[last'.ops[1].path] = last'.ops[1].content
              /\ Cardinality(DOMAIN fs' \ DOMAIN fs)
                    <= IF variant = "v3" /\ last'.ops[1].path \in DOMAIN fs
                       THEN 1
                       ELSE IF last'.ops[1].path \in DOMAIN fs THEN 0 ELSE 1]_vars

\* a write has replaced its target and, in v2, left two other files of the
\* directory as they were
C13_Witness ==
    /\ variant = "v2"
    /\ last.done = Len(last.ops)
    /\ Len(last.ops) = 1
    /\ Cardinality(DOMAIN fs) >= 3
    /\ fs[last.ops[1].path] = last.ops[1].content

\* C14: a property with no declared type, or with a type outside the
\* recognized kinds, is mapped to the universal "any" type by every
\* generator, and the mapping raises nothing.
C14_UnknownIsAny ==
    (tm.on /\ tm.by # "" /\ tm.prop.type \in {"", "weird"})
        => (tm.err = "" /\ tm.type = <<"Any">>)

\* whether the emitted field has no default (the Ellipsis of Field)
NoDefault(line) ==
    Range(line.rhs) \cap {"...", "Field(...)", "Field(..."} # {}

\* C15: in a validation-flavor model (v1, v2) a field is emitted without a
\* default exactly when its property is in the required set, a field not in
\* the required set has the default None, and the type of a nullable
\* property is wrapped in Optional[...], required or not.
C15_RequiredAndNullable ==
    (variant \in {"v1", "v2"} /\ last.own_err = "" /\ Len(last.ops) > 0) =>
        \A k \in DOMAIN last.schema.props :
            /\ NoDefault(FieldLines(last.ops[Len(last.ops)].content)[k])
                   <=> last.schema.props[k].name \in last.schema.required
            /\ last.schema.props[k].name \notin last.schema.required
                   => "None" \in Range(FieldLines(
                                         last.ops[Len(last.ops)].content)[k].rhs)
            /\ last.schema.props[k].nullable = "true"
                   => FieldLines(last.ops[Len(last.ops)].content)[k].type[1]
                          = "Optional["

\* the table of the scalar kinds, in the type names of the validation flavor
\* (v1) and of the persistence flavor (v3)
ScalarTarget(by, type, format) ==
    IF type = "integer" THEN (IF by = "v1" THEN <<"int">> ELSE <<"Integer">>)
    ELSE IF type = "number" THEN (IF by = "v1" THEN <<"float">> ELSE <<"Float">>)
    ELSE IF type = "boolean" THEN (IF by = "v1" THEN <<"bool">> ELSE <<"Boolean">>)
    ELSE IF format = "date" THEN (IF by = "v1" THEN <<"date">> ELSE <<"Date">>)
    ELSE IF format = "date-time"
    THEN (IF by = "v1" THEN <<"datetime">> ELSE <<"DateTime">>)
    ELSE IF format = "uuid" THEN <<"UUID">>
    ELSE IF format = "binary" THEN <<"bytes">>
    ELSE (IF by = "v1" THEN <<"str">> ELSE <<"String">>)

\* C16: the type mapper follows the table for the scalar kinds (string with
\* no format, date, date-time, uuid, binary; integer; number; boolean), and a
\* string property with an inline enum maps to the name of the enumeration
\* whatever its format.
C16_ScalarTable ==
    (tm.on /\ tm.by \in {"v1", "v3"}
     /\ tm.prop.type \in {"string", "integer", "number", "boolean"}) =>
        IF tm.prop.type = "string" /\ tm.prop.hasEnum
        THEN (tm.by = "v1" /\ tm.err = "") => tm.type = enum_name_of(tm.prop)
        ELSE (tm.by = "v1" \/ tm.prop.format \in {"", "date", "date-time"}) =>
                 /\ tm.err = ""
                 /\ tm.type = ScalarTarget(tm.by, tm.prop.type, tm.prop.format)

\* C17: within one run no write targets a path that another write of the
\* same run has targeted, be it a top-level, a nested or an enum artifact.
C17_DistinctPaths ==
    [][steps' = steps + 1 =>
          \A i \in 1..last'.done :
              /\ last'.ops[i].path \notin run.emitted
              /\ \A j \in 1..(i - 1) : last'.ops[j].path # last'.ops[i].path]_vars

\* Title(name): the name with its first character in upper case
Title(name) ==
    IF Len(name) = 0 THEN name ELSE <<UpperChar(name[1])>> \o Tail(name)

\* C18: (v1) the enumeration a string property refers to is named by the
\* title hint when there is one and by `{Title(owner)}{Title(property)}`
\* otherwise, and the artifact that name resolves to lists exactly the enum
\* values of the property.
C18_EnumNames ==
    (variant = "v1" /\ last.err = "" /\ Len(last.ops) > 0) =>
        \A k \in DOMAIN last.schema.props :
            (last.schema.props[k].type = "string" /\ last.schema.props[k].hasEnum)
            => /\ FieldLines(last.ops[Len(last.ops)].content)[k].type
                      = IF last.schema.props[k].hasTitle
                        THEN last.schema.props[k].title
                        ELSE Title(last.name) \o Title(last.schema.props[k].name)
               /\ \A d \in DOMAIN fs :
                      d = PyPath(Lower(FieldLines(
                                   last.ops[Len(last.ops)].content)[k].type))
                      => [i \in DOMAIN fs[d].lines |-> fs[d].lines[i].rhs]
                             = [i \in DOMAIN last.schema.props[k].enum |->
                                   last.schema.props[k].enum[i].text]

\* the element type the mapper of generator `by` gives to the items of an
\* array ("any" when there are no items)
ElementType(by, p) ==
    IF p.itemsShape = "absent" THEN <<"Any">>
    ELSE IF by = "v1" THEN get_python_type(p.items[1]).type
    ELSE v2_prop_type(<<"A">>, p.name, p.items[1]).type

\* C19: an array property whose items are not objects maps to
\* sequence-of(T), T being the type the same mapper gives to the items (the
\* mapped type of a primitive, a nested sequence for an array, any when
\* there are no items).
C19_ArrayOfMapped ==
    (tm.on /\ tm.by \in {"v1", "v2"} /\ tm.err = ""
     /\ tm.prop.type = "array" /\ tm.prop.itemsShape # "list"
     /\ items_of(tm.prop).type # "object")
        => tm.type = <<"List[">> \o ElementType(tm.by, tm.prop) \o <<"]">>

\* C20: an object property with nested properties maps to a reference to a
\* synthesized named model, one without nested properties to the generic
\* key/value map type.
C20_ObjectExpanded ==
    (tm.on /\ tm.by \in {"v1", "v2"} /\ tm.prop.type = "object") =>
        /\ tm.err = ""
        /\ IF tm.prop.hasProps
           THEN IsName(tm.type)
           ELSE tm.type \in {<<"Dict[str, Any]">>, <<"dict">>}

\* C21: every class name declared in an artifact is a valid identifier,
\* whatever the raw schema name was, in every generator.
C21_NamesSanitized ==
    \A q \in DOMAIN fs : ValidClassName(fs[q].cls)

\* C22: a run on a description with `components` but no `schemas`, or with
\* a schema entry lacking `properties`, ends with a malformed-description
\* error and leaves the output directory as it found it.
C22_IncompleteFails ==
    (run.exit # "none" /\ run.desc.root = "mapping" /\ run.desc.components
     /\ (~run.desc.schemas \/ ~run.desc.properties))
        => (run.err = "ValueError" /\ fs = run.dir0)

\* a property whose mapping emits an enumeration: a string with an inline
\* enum, or an array of such strings
IsEnumCarrier(p) ==
    \/ p.type = "string" /\ p.hasEnum
    \/ /\ p.type = "array" /\ p.itemsShape = "dict"
       /\ p.items[1].type = "string" /\ p.items[1].hasEnum

EnumPathAt(p) ==
    PyPath(Lower(enum_name_of(IF p.type = "array" THEN p.items[1] ELSE p)))

\* C23: (v1) when every property of a schema asks for an enumeration whose
\* artifact was there when the run started, the emission requests raise no
\* error and leave those artifacts as they were.
C23_EnumReEmission ==
    (variant = "v1" /\ steps > 0 /\ Len(last.schema.props) > 0
     /\ \A k \in DOMAIN last.schema.props :
            /\ IsEnumCarrier(last.schema.props[k])
            /\ EnumPathAt(last.schema.props[k]) \in DOMAIN run.dir0)
        => /\ run.err # "AttributeError"
           /\ \A k \in DOMAIN last.schema.props :
                  fs[EnumPathAt(last.schema.props[k])]
                      = run.dir0[EnumPathAt(last.schema.props[k])]

\* C24: when the expansion of an array property comes back to a mapping it
\* is already expanding, it fails with a cyclic-schema error.
C24_CycleDetected ==
    (tm.on /\ tm.prop.itemsShape = "cycle"
     /\ \/ tm.by = "v1" /\ tm.prop.items[1].type = "array"
        \/ tm.by = "v2" /\ tm.prop.items[1].type = "object")
        => tm.err = "CyclicSchema"

\* the tokens of the __table_args__ line of a model (none without the line)
TableArgs(content) ==
    IF \E i \in DOMAIN content.lines : content.lines[i].name = <<"__table_args__">>
    THEN (CHOOSE l \in Range(content.lines) : l.name = <<"__table_args__">>).rhs
    ELSE <<>>

\* the number of declarations Index('{name}_idx', '{name}') in the tokens
IndexCount(args, name) ==
    Cardinality({i \in DOMAIN args :
                    /\ args[i] = "Index('"
                    /\ i + 2 * Len(name) + 2 <= Len(args)
                    /\ SubSeq(args, i + 1, i + Len(name)) = name
                    /\ args[i + Len(name) + 1] = "_idx', '"
                    /\ SubSeq(args, i + Len(name) + 2, i + 2 * Len(name) + 1)
                           = name
                    /\ args[i + 2 * Len(name) + 2] = "')"})

\* C25: in an emitted v3 model the field of a property carries unique=True
\* exactly when the property asks for uniqueness, and __table_args__ holds
\* exactly one Index naming the field when the property asks for an index
\* and none otherwise; there is no other Index.
C25_UniqueAndIndex ==
    (variant = "v3" /\ Len(last.ops) = 1) =>
        /\ \A k \in DOMAIN last.schema.props :
             /\ "unique=True" \in Range(FieldLines(last.ops[1].content)[k].rhs)
                    <=> last.schema.props[k].unique
             /\ IndexCount(TableArgs(last.ops[1].content),
                           last.schema.props[k].name)
                    = IF last.schema.props[k].index THEN 1 ELSE 0
        /\ Cardinality({i \in DOMAIN TableArgs(last.ops[1].content) :
                           TableArgs(last.ops[1].content)[i] = "Index('"})
               = Cardinality({k \in DOMAIN last.schema.props :
                                 last.schema.props[k].index})

\* v3 has written a model with a property that is indexed only, one that is
\* unique only and one that is neither
C25_Witness ==
    /\ variant = "v3"
    /\ last.done = 1
    /\ fs[last.ops[1].path] = last.ops[1].content
    /\ \E a, b, c \in DOMAIN last.schema.props :
         /\ last.schema.props[a].index /\ ~last.schema.props[a].unique
         /\ last.schema.props[b].unique /\ ~last.schema.props[b].index
         /\ ~last.schema.props[c].unique /\ ~last.schema.props[c].index

\* C26: no file of v3 declares two fields of the same name.
C26_DistinctFieldNames ==
    variant = "v3" =>
        \A q \in DOMAIN fs :
            \A a, b \in DOMAIN FieldLines(fs[q]) :
                FieldLines(fs[q])[a].name = FieldLines(fs[q])[b].name => a = b

\* C27: (v3) no step loses a version: the content a target held before it
\* was overwritten, and the content of every backup, is the content of some
\* backup of the same target afterwards.
C27_NoVersionLost ==
    [][variant = "v3" =>
          \A q \in DOMAIN fs :
              (IsBackup(q) \/ (q \in DOMAIN fs' /\ fs'[q] # fs[q])) =>
                  \E b \in DOMAIN fs' :
                      IsBackup(b) /\ b.stem = q.stem /\ fs'[b] = fs[q]]_vars

\* C28: (v3) the iteration on a schema whose name is no valid class name
\* changes no file (no artifact, no backup), raises nothing and leaves the
\* loop running; and every file of the directory declares a class with a
\* valid name.
C28_InvalidNameSkipped ==
    [][variant = "v3" =>
          /\ \A q \in DOMAIN fs' : ValidClassName(fs'[q].cls)
          /\ (steps' = steps + 1 /\ ~ValidClassName(last'.name)) =>
                /\ fs' = fs
                /\ last'.ops = <<>>
                /\ pc' = "run"
                /\ run'.err = "" /\ run'.exit = "none"]_vars

\* in one run of v3 a schema was written after a schema with an invalid
\* name had been met
C28_Witness ==
    /\ variant = "v3"
    /\ pc = "run"
    /\ \E n \in seen : ~ValidClassName(n)
    /\ ValidClassName(last.name)
    /\ last.name \in seen
    /\ last.done = 1
    /\ fs[last.ops[1].path] = last.ops[1].content

\* C29: on every raw name whose stripped form is not empty the sanitizer is
\* idempotent: applied to its own result it raises nothing and returns that
\* result again.
C29_SanitizeIdempotent ==
    (san.done /\ san.err = "") =>
        sanitize_schema_name(san.val) = [err |-> "", val |-> san.val]

\* a raw name that the sanitizer both stripped and prefixed
C29_Witness ==
    /\ san.done
    /\ san.err = ""
    /\ san.raw[1] = "-"
    /\ san.val[1] = "_"
    /\ Len(san.val) >= 2
    /\ san.val[2] \in Digits

====
